---------------------------- MODULE Spec2Model ----------------------------
(***************************************************************************)
(* A model of jobpilot's LinkedInScraper (src/jobpilot/scrapers/           *)
(* linkedin.py): the concurrent pagination controller (scrape, get_jobs),  *)
(* its early-termination bookkeeping, the shared rate limiter, the retry   *)
(* loops and the detail enrichment (fill_jobs_details, get_job_details).   *)
(*                                                                         *)
(* One asyncio event loop runs everything, so every stretch of code        *)
(* between two suspension points is one atomic action.  The suspension     *)
(* points of a fetch task are: limiter.acquire() when the bucket is full,  *)
(* the await of client.get(), and asyncio.sleep() of the retry delay.      *)
(* `async with self.__lock` never suspends: its body holds no await, so    *)
(* the lock is free whenever a task reaches it.                            *)
(***************************************************************************)
EXTENDS Integers, Sequences, FiniteSets, TLC

\* ------------------------------------------------------------------------
\* Program constants
\* ------------------------------------------------------------------------
START_LIMIT == 1000
RESULTS_PER_PAGE == 25
MAX_RETRIES == 5
RETRY_DELAY == 5
LIMITER_MAX_RATE == 5

\* ------------------------------------------------------------------------
\* Bounds of the model
\* ------------------------------------------------------------------------
\* the largest number of listing pages a modelled query asks for
MaxPages == 3
\* the largest number of cards on one page of the upstream
MaxCards == 2
\* the largest number of jobs of a query whose details are fetched
MaxDetailJobs == 2
\* the number of failing responses (status errors, timeouts, bad pages,
\* unparseable pages) the upstream gives in one behaviour
MaxFaults == 5
\* the largest limit of the offset-computation specification is
\* START_LIMIT + OverCap
OverCap == 60

\* ------------------------------------------------------------------------
\* Values
\* ------------------------------------------------------------------------
\* the scrape invocations on the one scraper instance; all are called with
\* equal ScraperInput values, so they share one key of the instance's dicts
Invocations == {1, 2}

None == "None"

Min(a, b) == IF a < b THEN a ELSE b

\* what one request can come back with: a 200 with a parseable body, a
\* status raise_for_status() rejects, a transport timeout, a detail page
\* without its description block, or a body on which parsing raises
\* something else (LinkedInError, ValueError, AttributeError, ...)
\* the seconds the Retry-After header of a response names, when it has one
RetryAfterSeconds == 3

\* "s429ra" is a 429 that carries a Retry-After header
StatusErrors == {"s429", "s429ra", "s5xx", "s4xx"}
Timeouts == {"timeout"}
ListingOutcomes == {"ok", "error"} \cup StatusErrors \cup Timeouts
DetailOutcomes == ListingOutcomes \cup {"badpage"}

\* a task waits for a limiter slot ("acquire"; also: created and not
\* started), awaits the response ("request") or sleeps the retry delay
\* ("sleep"), until it is done in one of four ways
\* (mutant) a cancelled task does not count as done
DoneWithoutCancelled == {"ok", "fatal", "exhausted"}

Done == {"ok", "fatal", "exhausted", "cancelled"}

VARIABLES
    limit,          \* scraper_input.limit
    upstream,       \* upstream[o]: the number of cards on the page at offset o
    callers,        \* the invocations the environment makes
    level,          \* the limiter's bucket level
    faults,         \* failing responses given so far
    min_starts,     \* self.__min_starts_without_results[scraper_input]
    registry,       \* self.__tasks[scraper_input]: a list of task ids
    pc,             \* pc[i]: where invocation i of scrape stands
    job_details,    \* job_details[i]: the flag invocation i was called with
    exc,            \* exc[i]: the exception invocation i raised
    task,           \* task[<<i, start>>]: the listing tasks created so far
    jobs,           \* jobs[i]: scrape's local list `jobs`
    dtask,          \* dtask[i][k]: the detail task of jobs[i][k]
    reordered,      \* history: reordered[i] holds once a page of invocation i
                    \* was parsed while a task of a smaller start was not done
    call,           \* a call of one of the models' or the parser's functions:
                    \* the function and its arguments
    ret             \* what that call returned or raised

scraperVars == <<limit, upstream, callers, level, faults, min_starts, registry,
                 pc, job_details, exc, task, jobs, dtask, reordered>>

vars == <<limit, upstream, callers, level, faults, min_starts, registry, pc,
          job_details, exc, task, jobs, dtask, reordered, call, ret>>

\* ------------------------------------------------------------------------
\* Pure functions
\* ------------------------------------------------------------------------
\* range(start, stop, step) for a positive step, as a sequence
RECURSIVE Range(_, _, _)
Range(start, stop, step) ==
    IF start >= stop THEN <<>>
    ELSE <<start>> \o Range(start + step, stop, step)

\* (mutant) the limit taken as given, START_LIMIT forgotten
UncappedLimit(l) == l

\* limit = min(scraper_input.limit, self.START_LIMIT)
EffectiveLimit(l) == Min(l, START_LIMIT)

\* the starts scrape creates one task for
Starts(l) == Range(0, EffectiveLimit(l), RESULTS_PER_PAGE)

\* the markup of the page at offset o: its cards in page order
Markup(o) == [k \in 1..upstream[o] |-> <<o, k>>]

\* parse_job: one card to one Job, details not fetched yet
\* (its details None, written as the empty tuple: a value that can be
\* compared with the tuple parse_job_details gives)
parse_job(card) == [link |-> card, details |-> <<>>]

\* parse_jobs: the cards of the page, in markup order
parse_jobs(markup) == [k \in 1..Len(markup) |-> parse_job(markup[k])]

\* parse_job_details of the detail page of a job
parse_job_details(link) == <<"details", link>>

\* except (HTTPStatusError, ConnectTimeout, TimeoutException) in get_jobs
ListingRetryable(kind) == kind \in StatusErrors \cup Timeouts

\* except (HTTPStatusError, ConnectTimeout, TimeoutException,
\*         LinkedInBadPageError) in get_job_details
DetailRetryable(kind) == kind \in StatusErrors \cup Timeouts \cup {"badpage"}

\* (mutant) one round too many
LastRetryOffByOne == MAX_RETRIES + 1

\* the last value of `for retry in range(1, self.MAX_RETRIES + 1)`
LastRetry == MAX_RETRIES

\* the seconds a task sleeps after the failure of round `retry`:
\* asyncio.sleep(self.RETRY_DELAY * retry)
Backoff(retry) == RETRY_DELAY * retry

\* a task as create_task leaves it; requests and tokens are history: the
\* requests the task has issued and the limiter slots it has acquired
NewTask == [st |-> "acquire", retry |-> 1, requests |-> 0, tokens |-> 0,
            last |-> None, delay |-> 0, was |-> None, result |-> <<>>]

\* (mutant) the task swallows the CancelledError and goes on
CancelIgnored(t) == t

\* task.cancel() of a task that is not done: CancelledError is thrown into
\* it at its suspension point, which no except clause of get_jobs catches
Cancel(t) == [t EXCEPT !.st = "cancelled", !.was = t.st]

\* (mutant) the cancellation loop without its comparison of the starts:
\* every other task that is not done is cancelled
CancelOthers(tk, start) ==
    [id \in DOMAIN tk |->
        IF /\ \E n \in 1..Len(registry) : registry[n] = id
           /\ tk[id].st \notin Done
           /\ id[2] # start
        THEN Cancel(tk[id]) ELSE tk[id]]

\* the cancellation loop of get_jobs under the lock, run by the task of
\* `start` after a page without jobs
CancelGreater(tk, start) ==
    [id \in DOMAIN tk |->
        IF /\ \E n \in 1..Len(registry) : registry[n] = id
           /\ tk[id].st \notin Done
           /\ id[2] > start
        THEN Cancel(tk[id]) ELSE tk[id]]

\* (mutant) the loop of scrape putting each list before the ones it has
RECURSIVE AggregatePrepend(_, _, _)
AggregatePrepend(i, starts, acc) ==
    IF starts = <<>> THEN <<"jobs", acc>>
    ELSE LET t == task[<<i, Head(starts)>>] IN
         CASE t.st = "cancelled" -> AggregatePrepend(i, Tail(starts), acc)
           [] t.st \in {"fatal", "exhausted"} -> <<"raise", t.st>>
           [] OTHER -> AggregatePrepend(i, Tail(starts), t.result \o acc)

\* (mutant) the loop of scrape without its CancelledError test: a cancelled
\* task's result is raised like any other exception
RECURSIVE AggregateRaisesCancelled(_, _, _)
AggregateRaisesCancelled(i, starts, acc) ==
    IF starts = <<>> THEN <<"jobs", acc>>
    ELSE LET t == task[<<i, Head(starts)>>] IN
         CASE t.st \in {"fatal", "exhausted", "cancelled"} -> <<"raise", t.st>>
           [] OTHER -> AggregateRaisesCancelled(i, Tail(starts),
                                                acc \o t.result)

\* the for loop of scrape over gather's results, in the order of `tasks`:
\* <<"raise", kind>> at the first exception that is not a CancelledError,
\* else <<"jobs", the concatenated lists>>
RECURSIVE Aggregate(_, _, _)
Aggregate(i, starts, acc) ==
    IF starts = <<>> THEN <<"jobs", acc>>
    ELSE LET t == task[<<i, Head(starts)>>] IN
         CASE t.st = "cancelled" -> Aggregate(i, Tail(starts), acc)
           [] t.st \in {"fatal", "exhausted"} -> <<"raise", t.st>>
           [] OTHER -> Aggregate(i, Tail(starts), acc \o t.result)


\* which except clause of get_jobs a response of this kind reaches
ListingHandler(kind) ==
    IF kind = "ok" THEN "else"
    ELSE IF ListingRetryable(kind) THEN "retry" ELSE "raise"

\* which except clause of get_job_details a response of this kind reaches
DetailHandler(kind) ==
    IF kind = "ok" THEN "else"
    ELSE IF DetailRetryable(kind) THEN "retry" ELSE "raise"

\* the exception class scrape raises for a task that ended this way
ExcOf(st) == IF st = "exhausted" THEN "TooManyRetries" ELSE "Unclassified"

\* the ids of the tasks invocation i creates, in creation order
TaskIds(i) == [n \in 1..Len(Starts(limit)) |-> <<i, Starts(limit)[n]>>]

SeqToSet(s) == {s[n] : n \in 1..Len(s)}

\* ------------------------------------------------------------------------
\* Inputs
\* ------------------------------------------------------------------------
\* the limits of the modelled queries: a negative one, zero, one that is no
\* multiple of the page size (two pages), and MaxPages whole pages
Limits ==
    {-RESULTS_PER_PAGE, 0, RESULTS_PER_PAGE + 1, RESULTS_PER_PAGE * MaxPages}

\* the numbers of cards a page of the upstream can hold
PageSizes == {0, MaxCards}

RECURSIVE Sum(_, _)
Sum(f, S) ==
    IF S = {} THEN 0
    ELSE LET x == CHOOSE y \in S : TRUE IN f[x] + Sum(f, S \ {x})

\* details are fetched only for queries whose upstream holds few cards
JobDetailsChoices ==
    IF Sum(upstream, DOMAIN upstream) <= MaxDetailJobs
    THEN BOOLEAN ELSE {FALSE}

\* ------------------------------------------------------------------------
\* Initial state: the scraper after __init__, and the environment's inputs
\* ------------------------------------------------------------------------
InitScraper ==
    /\ level = 0
    /\ faults = 0
    /\ min_starts = 0
    /\ registry = <<>>
    /\ pc = [i \in Invocations |-> "idle"]
    /\ job_details = [i \in Invocations |-> FALSE]
    /\ exc = [i \in Invocations |-> None]
    /\ task = <<>>
    /\ jobs = [i \in Invocations |-> <<>>]
    /\ dtask = [i \in Invocations |-> <<>>]
    /\ reordered = [i \in Invocations |-> FALSE]

\* the scraper's runs call the parser inside Response and DResponse; no
\* function is called on its own
NoCall == call = [fn |-> None] /\ ret = <<>>

Init ==
    /\ limit \in Limits
    /\ upstream \in [SeqToSet(Starts(limit)) -> PageSizes]
    /\ callers = {1}
    /\ InitScraper
    /\ NoCall

\* ------------------------------------------------------------------------
\* scrape
\* ------------------------------------------------------------------------
NewDetailTask == [st |-> "acquire", retry |-> 1, requests |-> 0, tokens |-> 0,
                  last |-> None, delay |-> 0]

\* scrape up to its first suspension: the boundary is reset, one task per
\* start is created and registered, and gather is awaited.  gather() of no
\* task is done at once, and scrape returns the empty list without
\* suspending.
Scrape(i, jd) ==
    /\ i \in callers
    /\ pc[i] = "idle"
    /\ min_starts' = EffectiveLimit(limit)
    /\ task' = [id \in DOMAIN task \cup SeqToSet(TaskIds(i)) |->
                    IF id \in DOMAIN task THEN task[id] ELSE NewTask]
    /\ registry' = registry \o TaskIds(i)
    /\ job_details' = [job_details EXCEPT ![i] = jd]
    /\ pc' = [pc EXCEPT ![i] = IF TaskIds(i) = <<>> THEN "returned" ELSE "gather"]
    /\ UNCHANGED <<call, ret, limit, upstream, callers, level, faults, exc, jobs, dtask,
                   reordered>>

\* scrape resumed by gather, once every task of the invocation is done:
\* the loop over the results, then fill_jobs_details up to its gather
GatherDone(i) ==
    /\ pc[i] = "gather"
    /\ \A n \in 1..Len(TaskIds(i)) : task[TaskIds(i)[n]].st \in Done
    /\ LET r == Aggregate(i, Starts(limit), <<>>) IN
       IF r[1] = "raise"
       THEN /\ pc' = [pc EXCEPT ![i] = "raised"]
            /\ exc' = [exc EXCEPT ![i] = ExcOf(r[2])]
            /\ UNCHANGED <<jobs, dtask>>
       ELSE /\ jobs' = [jobs EXCEPT ![i] = r[2]]
            /\ IF job_details[i] /\ r[2] # <<>>
               THEN /\ dtask' = [dtask EXCEPT ![i] =
                                    [k \in 1..Len(r[2]) |-> NewDetailTask]]
                    /\ pc' = [pc EXCEPT ![i] = "details"]
               ELSE /\ pc' = [pc EXCEPT ![i] = "returned"]
                    /\ UNCHANGED dtask
            /\ UNCHANGED exc
    /\ UNCHANGED <<call, ret, limit, upstream, callers, level, faults, min_starts,
                   registry, job_details, task,
                   reordered>>

\* ------------------------------------------------------------------------
\* The limiter
\* ------------------------------------------------------------------------
\* time passes and the bucket leaks.  The level is read only to tell a full
\* bucket from one with room, so the leak is modelled where it shows: when
\* the bucket is full.
Leak ==
    /\ level = LIMITER_MAX_RATE
    /\ level' = level - 1
    /\ UNCHANGED <<call, ret, limit, upstream, callers, faults, min_starts, registry, pc,
                   job_details, exc, task, jobs, dtask,
                   reordered>>

\* ------------------------------------------------------------------------
\* get_jobs
\* ------------------------------------------------------------------------
\* limiter.acquire() returns and the request is issued
Acquire(id) ==
    /\ id \in DOMAIN task
    /\ task[id].st = "acquire"
    /\ level < LIMITER_MAX_RATE
    /\ level' = level + 1
    /\ task' = [task EXCEPT ![id] = [@ EXCEPT !.st = "request",
                                               !.tokens = @ + 1,
                                               !.requests = @ + 1]]
    /\ UNCHANGED <<call, ret, limit, upstream, callers, faults, min_starts, registry, pc,
                   job_details, exc, jobs, dtask,
                   reordered>>

\* (mutant) the else branch of get_jobs without its bookkeeping: the page is
\* returned, the boundary stays and nothing is cancelled
ParsedNoBoundary(id) ==
    /\ task' = [task EXCEPT ![id] =
                   [@ EXCEPT !.st = "ok", !.last = "ok",
                             !.result = parse_jobs(Markup(id[2]))]]
    /\ reordered' = [reordered EXCEPT ![id[1]] =
           @ \/ \E o \in SeqToSet(Starts(limit)) :
                    o < id[2] /\ task[<<id[1], o>>].st \notin Done]
    /\ UNCHANGED <<min_starts, faults>>

\* (mutant) the else branch of get_jobs without its test of the page: any
\* page below the boundary moves the boundary and cancels the tasks of
\* greater starts
ParsedCancelsOnAnyPage(id) ==
    LET js == parse_jobs(Markup(id[2]))
        tk == [task EXCEPT ![id] = [@ EXCEPT !.st = "ok", !.last = "ok",
                                             !.result = js]]
    IN  /\ IF id[2] < min_starts
           THEN /\ min_starts' = id[2]
                /\ task' = CancelGreater(tk, id[2])
           ELSE /\ task' = tk
                /\ UNCHANGED min_starts
        /\ reordered' = [reordered EXCEPT ![id[1]] =
               @ \/ \E o \in SeqToSet(Starts(limit)) :
                        o < id[2] /\ task[<<id[1], o>>].st \notin Done]
        /\ UNCHANGED faults

\* the else branch of get_jobs: the page was parsed; under the lock, a page
\* without jobs below the boundary moves the boundary and cancels the tasks
\* of greater starts
Parsed(id) ==
    LET js == parse_jobs(Markup(id[2]))
        tk == [task EXCEPT ![id] = [@ EXCEPT !.st = "ok", !.last = "ok",
                                             !.result = js]]
    IN  /\ IF js = <<>> /\ id[2] < min_starts
           THEN /\ min_starts' = id[2]
                /\ task' = CancelGreater(tk, id[2])
           ELSE /\ task' = tk
                /\ UNCHANGED min_starts
        /\ reordered' = [reordered EXCEPT ![id[1]] =
               @ \/ \E o \in SeqToSet(Starts(limit)) :
                        o < id[2] /\ task[<<id[1], o>>].st \notin Done]
        /\ UNCHANGED faults

\* the except clause of the retryable failures: the task sleeps
Retry(id, kind) ==
    /\ faults < MaxFaults
    /\ faults' = faults + 1
    /\ task' = [task EXCEPT ![id] =
                   [@ EXCEPT !.st = "sleep", !.last = kind,
                             !.delay = Backoff(task[id].retry)]]
    /\ UNCHANGED <<min_starts, reordered>>

\* (mutant) the unclassified exception is logged and the task returns no
\* jobs
RaiseAbsorbed(id, kind) ==
    /\ faults < MaxFaults
    /\ faults' = faults + 1
    /\ task' = [task EXCEPT ![id] = [@ EXCEPT !.st = "ok", !.last = kind]]
    /\ UNCHANGED <<min_starts, reordered>>

\* except Exception: logged and raised again
Raise(id, kind) ==
    /\ faults < MaxFaults
    /\ faults' = faults + 1
    /\ task' = [task EXCEPT ![id] = [@ EXCEPT !.st = "fatal", !.last = kind]]
    /\ UNCHANGED <<min_starts, reordered>>

\* the response of a listing request arrives
Response(id, kind) ==
    /\ id \in DOMAIN task
    /\ task[id].st = "request"
    /\ CASE ListingHandler(kind) = "else" -> Parsed(id)
         [] ListingHandler(kind) = "retry" -> Retry(id, kind)
         [] OTHER -> Raise(id, kind)
    /\ UNCHANGED <<call, ret, limit, upstream, callers, level, registry, pc,
                   job_details, exc, jobs, dtask>>

\* (mutant) the next round requests at once, the limiter left out
WakeSkipsLimiter(id) ==
    /\ id \in DOMAIN task
    /\ task[id].st = "sleep"
    /\ task' = [task EXCEPT ![id] =
                   IF @.retry < LastRetry
                   THEN [@ EXCEPT !.st = "request", !.retry = @ + 1,
                                  !.requests = @ + 1, !.last = None,
                                  !.delay = 0]
                   ELSE [@ EXCEPT !.st = "exhausted", !.last = None,
                                  !.delay = 0]]
    /\ UNCHANGED <<call, ret, limit, upstream, callers, level, faults,
                   min_starts, registry, pc, job_details, exc, jobs, dtask,
                   reordered>>

\* the retry delay is over: the next round of the for loop, or, after the
\* last round, raise LinkedInTooManyRetriesError
Wake(id) ==
    /\ id \in DOMAIN task
    /\ task[id].st = "sleep"
    /\ task' = [task EXCEPT ![id] =
                   IF @.retry < LastRetry
                   THEN [@ EXCEPT !.st = "acquire", !.retry = @ + 1,
                                  !.last = None, !.delay = 0]
                   ELSE [@ EXCEPT !.st = "exhausted", !.last = None,
                                  !.delay = 0]]
    /\ UNCHANGED <<call, ret, limit, upstream, callers, level, faults, min_starts,
                   registry, pc, job_details, exc, jobs, dtask,
                   reordered>>

\* ------------------------------------------------------------------------
\* get_job_details
\* ------------------------------------------------------------------------
\* a detail task ends with an exception: gather (without return_exceptions)
\* hands the first one to scrape, which raises it; the other detail tasks
\* keep running
DetailFailed(i, k, st, kind) ==
    /\ dtask' = [dtask EXCEPT ![i][k] =
                    [@ EXCEPT !.st = st, !.last = kind, !.delay = 0]]
    /\ IF pc[i] = "details"
       THEN /\ pc' = [pc EXCEPT ![i] = "raised"]
            /\ exc' = [exc EXCEPT ![i] = ExcOf(st)]
       ELSE UNCHANGED <<pc, exc>>

DAcquire(i, k) ==
    /\ k \in DOMAIN dtask[i]
    /\ dtask[i][k].st = "acquire"
    /\ level < LIMITER_MAX_RATE
    /\ level' = level + 1
    /\ dtask' = [dtask EXCEPT ![i][k] = [@ EXCEPT !.st = "request",
                                                  !.tokens = @ + 1,
                                                  !.requests = @ + 1]]
    /\ UNCHANGED <<call, ret, limit, upstream, callers, faults, min_starts, registry, pc,
                   job_details, exc, task, jobs,
                   reordered>>

DResponse(i, k, kind) ==
    /\ k \in DOMAIN dtask[i]
    /\ dtask[i][k].st = "request"
    /\ CASE DetailHandler(kind) = "else" ->
              /\ dtask' = [dtask EXCEPT ![i][k] =
                              [@ EXCEPT !.st = "ok", !.last = "ok"]]
              /\ jobs' = [jobs EXCEPT ![i][k].details =
                              parse_job_details(jobs[i][k].link)]
              /\ UNCHANGED <<faults, pc, exc>>
         [] DetailHandler(kind) = "retry" ->
              /\ faults < MaxFaults
              /\ faults' = faults + 1
              /\ dtask' = [dtask EXCEPT ![i][k] =
                              [@ EXCEPT !.st = "sleep", !.last = kind,
                                        !.delay = Backoff(dtask[i][k].retry)]]
              /\ UNCHANGED <<jobs, pc, exc>>
         [] OTHER ->
              /\ faults < MaxFaults
              /\ faults' = faults + 1
              /\ DetailFailed(i, k, "fatal", kind)
              /\ UNCHANGED jobs
    /\ UNCHANGED <<call, ret, limit, upstream, callers, level, min_starts, registry,
                   job_details, task,
                   reordered>>

DWake(i, k) ==
    /\ k \in DOMAIN dtask[i]
    /\ dtask[i][k].st = "sleep"
    /\ IF dtask[i][k].retry < LastRetry
       THEN /\ dtask' = [dtask EXCEPT ![i][k] =
                            [@ EXCEPT !.st = "acquire", !.retry = @ + 1,
                                      !.last = None, !.delay = 0]]
            /\ UNCHANGED <<pc, exc>>
       ELSE DetailFailed(i, k, "exhausted", None)
    /\ UNCHANGED <<call, ret, limit, upstream, callers, level, faults, min_starts,
                   registry, job_details, task, jobs,
                   reordered>>

\* every detail task returned: fill_jobs_details returns, scrape returns
DetailsDone(i) ==
    /\ pc[i] = "details"
    /\ \A k \in DOMAIN dtask[i] : dtask[i][k].st = "ok"
    /\ pc' = [pc EXCEPT ![i] = "returned"]
    /\ UNCHANGED <<call, ret, limit, upstream, callers, level, faults, min_starts,
                   registry, job_details, exc, task, jobs, dtask,
                   reordered>>

\* ------------------------------------------------------------------------
\* Specifications
\* ------------------------------------------------------------------------
AllTaskIds == Invocations \X SeqToSet(Starts(limit))
AllDetailIds == 1..(MaxDetailJobs + 1)

Next ==
    \/ \E i \in Invocations : \E jd \in JobDetailsChoices : Scrape(i, jd)
    \/ \E i \in Invocations : GatherDone(i)
    \/ Leak
    \/ \E id \in AllTaskIds : Acquire(id)
    \/ \E id \in AllTaskIds : \E kind \in ListingOutcomes : Response(id, kind)
    \/ \E id \in AllTaskIds : Wake(id)
    \/ \E i \in Invocations : \E k \in AllDetailIds : DAcquire(i, k)
    \/ \E i \in Invocations : \E k \in AllDetailIds :
          \E kind \in DetailOutcomes : DResponse(i, k, kind)
    \/ \E i \in Invocations : \E k \in AllDetailIds : DWake(i, k)
    \/ \E i \in Invocations : DetailsDone(i)

Spec == Init /\ [][Next]_vars

\* The end-to-end scenario of the specification: limit 100, full pages at
\* offsets 0 and 25, no jobs at offset 50.  No details are fetched, so only
\* the listing actions can fire.
InitScenario ==
    /\ limit = 4 * RESULTS_PER_PAGE
    /\ upstream \in [SeqToSet(Starts(limit)) -> {0, RESULTS_PER_PAGE}]
    /\ upstream[0] = RESULTS_PER_PAGE
    /\ upstream[RESULTS_PER_PAGE] = RESULTS_PER_PAGE
    /\ upstream[2 * RESULTS_PER_PAGE] = 0
    /\ callers = {1}
    /\ InitScraper
    /\ NoCall

NextListing ==
    \/ \E i \in Invocations : \E jd \in JobDetailsChoices : Scrape(i, jd)
    \/ \E i \in Invocations : GatherDone(i)
    \/ Leak
    \/ \E id \in AllTaskIds : Acquire(id)
    \/ \E id \in AllTaskIds : \E kind \in ListingOutcomes : Response(id, kind)
    \/ \E id \in AllTaskIds : Wake(id)

SpecScenario == InitScenario /\ [][NextListing]_vars

\* The computation of the starts for limits on both sides of zero and of
\* START_LIMIT: scrape up to its gather, the tasks not scheduled yet.
InitOffsets ==
    /\ limit \in (-OverCap)..(START_LIMIT + OverCap)
    /\ upstream = [o \in SeqToSet(Starts(limit)) |-> 0]
    /\ callers = {1}
    /\ InitScraper
    /\ NoCall

NextOffsets ==
    \E i \in Invocations : \E jd \in JobDetailsChoices : Scrape(i, jd)

SpecOffsets == InitOffsets /\ [][NextOffsets]_vars


\* Two invocations of scrape on one instance with equal ScraperInput values,
\* one after the other or overlapping: they share the entry of
\* __min_starts_without_results and of __tasks that the input is the key of.
\* The page at offset 0 has no jobs and the page at offset 25 has more than
\* MaxDetailJobs, so no details are fetched and only the listing actions
\* can fire.
InitConcurrent ==
    /\ limit = RESULTS_PER_PAGE + 1
    /\ upstream = [o \in SeqToSet(Starts(limit)) |->
                      IF o = 0 THEN 0 ELSE MaxDetailJobs + 1]
    /\ callers = Invocations
    /\ InitScraper
    /\ NoCall

SpecConcurrent == InitConcurrent /\ [][NextListing]_vars

\* One invocation on a query of two pages, under the scheduling the event
\* loop, the limiter and the HTTP client give: the bucket leaks as time
\* passes, a task waiting for a slot gets one, an issued request is answered
\* (a response, a status error or a timeout of the client), a sleep ends,
\* and the loop resumes scrape once the futures it awaits are done.  When
\* scrape is called is the caller's choice, so Scrape has no fairness.
LiveLimit == RESULTS_PER_PAGE + 1

LiveTaskIds == Invocations \X SeqToSet(Range(0, LiveLimit, RESULTS_PER_PAGE))

LiveDetailIds == Invocations \X AllDetailIds

InitLive ==
    /\ limit = LiveLimit
    /\ upstream \in [SeqToSet(Starts(limit)) -> PageSizes]
    /\ callers = {1}
    /\ InitScraper
    /\ NoCall

Fairness ==
    /\ WF_vars(Leak)
    /\ \A i \in Invocations : WF_vars(GatherDone(i))
    /\ \A i \in Invocations : WF_vars(DetailsDone(i))
    /\ \A id \in LiveTaskIds :
          /\ WF_vars(Acquire(id))
          /\ WF_vars(\E kind \in ListingOutcomes : Response(id, kind))
          /\ WF_vars(Wake(id))
    /\ \A d \in LiveDetailIds :
          /\ WF_vars(DAcquire(d[1], d[2]))
          /\ WF_vars(\E kind \in DetailOutcomes : DResponse(d[1], d[2], kind))
          /\ WF_vars(DWake(d[1], d[2]))

SpecLive == InitLive /\ [][Next]_vars /\ Fairness

\* ------------------------------------------------------------------------
\* The models (models/job.py, models/location.py) and the parser
\* ------------------------------------------------------------------------
\* Strings are written in Python's unicode_escape spelling: a character
\* outside ASCII is spelled \xhh or \uhhhh.

\* the largest number of comma-separated parts of a card's location text
MaxParts == 3
\* the largest number of criteria items of a detail page
MaxCriteria == 2

\* a call returns a value or raises an exception
Returns(v) == [raised |-> None, value |-> v]
Raises(e) == [raised |-> e, value |-> None]

\* class EmploymentType(Enum): the members in definition order, each with
\* its tuple of aliases
EmploymentType == <<
    [name |-> "FULLTIME", value |-> <<"fulltime", "per\\xedodointegral",
        "est\\xe1gio/trainee", "cunorm\\u0103\\xeentreag\\u0103",
        "tiempocompleto", "vollzeit", "voltijds", "tempointegral",
        "\\u5168\\u804c", "pln\\xfd\\xfavazek", "fuldtid",
        "\\u062f\\u0648\\u0627\\u0645\\u0643\\u0627\\u0645\\u0644",
        "kokop\\xe4iv\\xe4ty\\xf6", "tempsplein", "vollzeit",
        "\\u03c0\\u03bb\\u03ae\\u03c1\\u03b7\\u03c2\\u03b1\\u03c0\\u03b1\\u03c3\\u03c7\\u03cc\\u03bb\\u03b7\\u03c3\\u03b7",
        "teljesmunkaid\\u0151", "tempopieno", "tempsplein", "heltid",
        "jornadacompleta", "pe\\u0142nyetat", "\\uc815\\uaddc\\uc9c1", "100%",
        "\\u5168\\u8077",
        "\\u0e07\\u0e32\\u0e19\\u0e1b\\u0e23\\u0e30\\u0e08\\u0e33",
        "tamzamanli",
        "\\u043f\\u043e\\u0432\\u043d\\u0430\\u0437\\u0430\\u0439\\u043d\\u044f\\u0442\\u0456\\u0441\\u0442\\u044c",
        "to\\xe0nth\\u1eddigian">>],
    [name |-> "PARTTIME", value |-> <<"parttime", "teilzeit",
        "\\u010d\\xe1ste\\u010dn\\xfd\\xfavazek", "deltid">>],
    [name |-> "INTERNSHIP", value |-> <<"internship", "pr\\xe1cticas",
        "ojt(onthejobtraining)", "praktikum", "praktik">>],
    [name |-> "PER_DIEM", value |-> <<"perdiem">>],
    [name |-> "NIGHTS", value |-> <<"nights">>],
    [name |-> "OTHER", value |-> <<"other">>],
    [name |-> "SUMMER", value |-> <<"summer">>],
    [name |-> "VOLUNTEER", value |-> <<"volunteer">>],
    [name |-> "SELFEMPLOYED", value |-> <<"contract">>]
    >>

\* class Country(Enum)
Country == <<
    [name |-> "AUSTRIA", value |-> <<"austria", "at">>],
    [name |-> "BAHRAIN", value |-> <<"bahrain", "bh">>],
    [name |-> "BELGIUM", value |-> <<"belgium", "be">>],
    [name |-> "BRAZIL", value |-> <<"brazil", "br">>],
    [name |-> "CANADA", value |-> <<"canada", "ca">>],
    [name |-> "CHILE", value |-> <<"chile", "cl">>],
    [name |-> "CHINA", value |-> <<"china", "cn">>],
    [name |-> "COLOMBIA", value |-> <<"colombia", "col">>],
    [name |-> "COSTARICA", value |-> <<"costa rica", "cr">>],
    [name |-> "CZECHREPUBLIC", value |-> <<"czech republic", "cz">>],
    [name |-> "DENMARK", value |-> <<"denmark", "dk">>],
    [name |-> "ECUADOR", value |-> <<"ecuador", "ec">>],
    [name |-> "EGYPT", value |-> <<"egypt", "eg">>],
    [name |-> "FINLAND", value |-> <<"finland", "fi">>],
    [name |-> "FRANCE", value |-> <<"france", "fr">>],
    [name |-> "GERMANY", value |-> <<"germany", "de">>],
    [name |-> "GREECE", value |-> <<"greece", "gr">>],
    [name |-> "HONGKONG", value |-> <<"hong kong", "hk">>],
    [name |-> "HUNGARY", value |-> <<"hungary", "hu">>],
    [name |-> "INDIA", value |-> <<"india", "in">>],
    [name |-> "INDONESIA", value |-> <<"indonesia", "id">>],
    [name |-> "IRELAND", value |-> <<"ireland", "ie">>],
    [name |-> "ISRAEL", value |-> <<"israel", "il">>],
    [name |-> "ITALY", value |-> <<"italy", "it">>],
    [name |-> "JAPAN", value |-> <<"japan", "jp">>],
    [name |-> "KUWAIT", value |-> <<"kuwait", "kw">>],
    [name |-> "LUXEMBOURG", value |-> <<"luxembourg", "lu">>],
    [name |-> "MALAYSIA", value |-> <<"malaysia", "my">>],
    [name |-> "MEXICO", value |-> <<"mexico", "mx">>],
    [name |-> "MOROCCO", value |-> <<"morocco", "ma">>],
    [name |-> "NETHERLANDS", value |-> <<"netherlands", "nl">>],
    [name |-> "NEWZEALAND", value |-> <<"new zealand", "nz">>],
    [name |-> "NIGERIA", value |-> <<"nigeria", "ng">>],
    [name |-> "NORWAY", value |-> <<"norway", "no">>],
    [name |-> "OMAN", value |-> <<"oman", "om">>],
    [name |-> "PAKISTAN", value |-> <<"pakistan", "pk">>],
    [name |-> "PANAMA", value |-> <<"panama", "pa">>],
    [name |-> "PERU", value |-> <<"peru", "pe">>],
    [name |-> "PHILIPPINES", value |-> <<"philippines", "ph">>],
    [name |-> "POLAND", value |-> <<"poland", "pl">>],
    [name |-> "PORTUGAL", value |-> <<"portugal", "pt">>],
    [name |-> "QATAR", value |-> <<"qatar", "qa">>],
    [name |-> "ROMANIA", value |-> <<"romania", "ro">>],
    [name |-> "SAUDIARABIA", value |-> <<"saudi arabia", "sa">>],
    [name |-> "SINGAPORE", value |-> <<"singapore", "sg">>],
    [name |-> "SOUTHAFRICA", value |-> <<"south africa", "za">>],
    [name |-> "SOUTHKOREA", value |-> <<"south korea", "kr">>],
    [name |-> "SPAIN", value |-> <<"spain", "es">>],
    [name |-> "SWEDEN", value |-> <<"sweden", "se">>],
    [name |-> "SWITZERLAND", value |-> <<"switzerland", "ch">>],
    [name |-> "TAIWAN", value |-> <<"taiwan", "tw">>],
    [name |-> "THAILAND", value |-> <<"thailand", "th">>],
    [name |-> "TURKEY", value |-> <<"turkey", "tr">>],
    [name |-> "UKRAINE", value |-> <<"ukraine", "ua">>],
    [name |-> "UNITEDARABEMIRATES", value |-> <<"united arab emirates",
        "ae">>],
    [name |-> "UK", value |-> <<"united kingdom", "uk">>],
    [name |-> "USA", value |-> <<"united states", "us", "usa">>],
    [name |-> "URUGUAY", value |-> <<"uruguay", "uy">>],
    [name |-> "VENEZUELA", value |-> <<"venezuela", "ve">>],
    [name |-> "VIETNAM", value |-> <<"vietnam", "vn">>],
    [name |-> "WORLDWIDE", value |-> <<"worldwide", "ww">>]
    >>

\* every string that is in some member's tuple
Aliases(enum) == UNION {SeqToSet(enum[m].value) : m \in DOMAIN enum}

\* the module-level loops `for member in Enum: for alias in member.value:
\* table[alias] = member`: a later assignment to a key replaces the earlier
AliasTable(enum) ==
    [a \in Aliases(enum) |->
        enum[CHOOSE m \in DOMAIN enum :
                /\ a \in SeqToSet(enum[m].value)
                /\ \A n \in DOMAIN enum :
                      n > m => a \notin SeqToSet(enum[n].value)].name]

ALIAS_TO_EMPLOYMENT_TYPE == AliasTable(EmploymentType)

ALIAS_TO_COUNTRY == AliasTable(Country)

\* EmploymentType.from_alias
EmploymentType_from_alias(alias) ==
    IF alias \in DOMAIN ALIAS_TO_EMPLOYMENT_TYPE
    THEN Returns(ALIAS_TO_EMPLOYMENT_TYPE[alias])
    ELSE Raises("ValueError")

\* (mutant) a string that is no alias gets the catch-all member
Country_from_alias_default(alias) ==
    IF alias \in DOMAIN ALIAS_TO_COUNTRY
    THEN Returns(ALIAS_TO_COUNTRY[alias])
    ELSE Returns("WORLDWIDE")

\* Country.from_alias
Country_from_alias(alias) ==
    IF alias \in DOMAIN ALIAS_TO_COUNTRY
    THEN Returns(ALIAS_TO_COUNTRY[alias])
    ELSE Raises("ValueError")

\* Job.__eq__ is pydantic's BaseModel.__eq__, which class Job does not
\* override: two jobs are equal when all their fields are
JobEq(a, b) == a = b

\* Job.__hash__: hash(self.link)
JobHash(a) == <<"hash", a.link>>

\* the location part of parse_job.  location_parts is the card's location
\* text split at its commas, each part given stripped and in lower case;
\* str.split returns at least one part.
ParseLocation(location_parts) ==
    LET n == Len(location_parts)
        possible_country == location_parts[n]
        c == Country_from_alias(possible_country)
        unknown == c.raised = "ValueError"
    IN  [country |-> IF unknown THEN "WORLDWIDE" ELSE c.value,
         region |-> IF n >= 2 THEN location_parts[n - 1] ELSE None,
         city |-> IF n >= 3 THEN location_parts[n - 2]
                  ELSE IF unknown THEN possible_country ELSE None]

\* parse_job of one card.  href is None when the title link is missing,
\* else its job id (the text after the last "-" and before the "?");
\* company is None when the company link is missing.  A Job's details are
\* the empty tuple for None, else the one-element tuple of its JobDetails.
ParseCard(raw_job) ==
    IF raw_job.href = None \/ raw_job.company = None
    THEN Raises("LinkedInError")
    ELSE Returns([title |-> raw_job.title,
                  link |-> <<"jobs/view", raw_job.href>>,
                  company |-> raw_job.company,
                  location |-> ParseLocation(raw_job.location),
                  details |-> <<>>])

\* the loop of parse_job_details over the criteria items, each a pair of
\* its title and its value (stripped, in lower case, "-" and " " removed)
RECURSIVE ParseCriteria(_, _)
ParseCriteria(criteria_sections, acc) ==
    IF criteria_sections = <<>> THEN Returns(acc)
    ELSE LET criteria_title == Head(criteria_sections)[1]
             criteria_value == Head(criteria_sections)[2]
             rest == Tail(criteria_sections)
         IN CASE criteria_title = "Seniority level" ->
                    ParseCriteria(rest, [acc EXCEPT !.seniority_level =
                                                        criteria_value])
              [] criteria_title = "Employment type" ->
                    LET e == EmploymentType_from_alias(criteria_value) IN
                    IF e.raised # None THEN e
                    ELSE ParseCriteria(rest, [acc EXCEPT !.employment_type =
                                                             e.value])
              [] criteria_title = "Job function" ->
                    ParseCriteria(rest, [acc EXCEPT !.job_function =
                                                        criteria_value])
              [] criteria_title = "Industries" ->
                    ParseCriteria(rest, [acc EXCEPT !.industries =
                                                        criteria_value])
              [] OTHER -> ParseCriteria(rest, acc)

\* parse_job_details of a detail page: whether its description block is
\* there, and its criteria items
ParseDetailPage(page) ==
    IF ~page.description THEN Raises("LinkedInBadPageError")
    ELSE ParseCriteria(page.criteria,
                       [description |-> "description",
                        employment_type |-> None, seniority_level |-> None,
                        job_function |-> None, industries |-> None])

\* what get_jobs and get_job_details make of the parser's result: the kind
\* of the response in ListingOutcomes and DetailOutcomes
OutcomeOf(r) ==
    CASE r.raised = None -> "ok"
      [] r.raised = "LinkedInBadPageError" -> "badpage"
      [] OTHER -> "error"

\* strings that are in no alias tuple
UnknownAliases ==
    {"", "freelance", "full-time", "FULLTIME", "United States",
     "greater milan metropolitan area", "lombardy"}

AliasInputs == Aliases(EmploymentType) \cup Aliases(Country) \cup UnknownAliases

\* the parts of the location texts: a country's name, a country's code, a
\* region and a text that is no country
LocationParts == {"italy", "it", "lombardy", "greater milan metropolitan area"}

LocationTexts ==
    UNION {[1..n -> LocationParts] : n \in 1..MaxParts}

RawJobs ==
    [href : {None, "3791"}, title : {"developer"}, company : {None, "acme"},
     location : LocationTexts]

CriteriaItems ==
    {"Employment type", "Seniority level", "Salary"} \X {"fulltime", "freelance"}

DetailPages ==
    [description : BOOLEAN,
     criteria : UNION {[1..n -> CriteriaItems] : n \in 0..MaxCriteria}]

\* jobs that differ in one field or another
JobValues ==
    [title : {"developer", "engineer"},
     link : {<<"jobs/view", "3791">>, <<"jobs/view", "3792">>},
     company : {"acme"},
     location : {ParseLocation(<<"italy">>)},
     details : {<<>>, <<"filled">>}]

Calls ==
    [fn : {"EmploymentType.from_alias", "Country.from_alias"},
     alias : AliasInputs]
    \cup [fn : {"parse_job"}, raw_job : RawJobs]
    \cup [fn : {"parse_job_details"}, page : DetailPages]
    \cup [fn : {"Job.__eq__"}, a : JobValues, b : JobValues]

InitModels ==
    /\ call \in Calls
    /\ ret = <<>>
    /\ limit = 0
    /\ upstream = <<>>
    /\ callers = {}
    /\ InitScraper

Called(fn) == call.fn = fn /\ ret = <<>>

EmploymentTypeFromAlias ==
    /\ Called("EmploymentType.from_alias")
    /\ ret' = <<EmploymentType_from_alias(call.alias)>>
    /\ UNCHANGED <<call, scraperVars>>

CountryFromAlias ==
    /\ Called("Country.from_alias")
    /\ ret' = <<Country_from_alias(call.alias)>>
    /\ UNCHANGED <<call, scraperVars>>

ParseJob ==
    /\ Called("parse_job")
    /\ ret' = <<ParseCard(call.raw_job)>>
    /\ UNCHANGED <<call, scraperVars>>

ParseJobDetails ==
    /\ Called("parse_job_details")
    /\ ret' = <<ParseDetailPage(call.page)>>
    /\ UNCHANGED <<call, scraperVars>>

\* a == b, and hash(a) == hash(b)
JobCompare ==
    /\ Called("Job.__eq__")
    /\ ret' = <<Returns([eq |-> JobEq(call.a, call.b),
                         hash_eq |-> JobHash(call.a) = JobHash(call.b)])>>
    /\ UNCHANGED <<call, scraperVars>>

NextModels ==
    \/ EmploymentTypeFromAlias
    \/ CountryFromAlias
    \/ ParseJob
    \/ ParseJobDetails
    \/ JobCompare

SpecModels == InitModels /\ [][NextModels]_vars

\* ------------------------------------------------------------------------
\* Properties
\* ------------------------------------------------------------------------
\* scrape got past its loop over the results: `jobs` is the aggregated list
Aggregated(i) == pc[i] \in {"details", "returned"}

\* the starts of invocation i whose task returned a page
Contributing(i) ==
    {o \in SeqToSet(Starts(limit)) :
        <<i, o>> \in DOMAIN task /\ task[<<i, o>>].st = "ok"}

\* the cards of the upstream page at offset o
Cards(o) == {<<o, k>> : k \in 1..upstream[o]}

\* C1: the list scrape returns holds exactly the records of the pages whose
\* task returned, each once, ordered by ascending originating offset and,
\* within one page, in the order of the page's markup, whatever the order
\* in which the tasks completed.
C1_OrderedByOffset ==
    \A i \in Invocations :
        Aggregated(i) =>
            /\ {jobs[i][p].link : p \in 1..Len(jobs[i])}
                  = UNION {Cards(o) : o \in Contributing(i)}
            /\ \A p, q \in 1..Len(jobs[i]) :
                  p < q =>
                     \/ jobs[i][p].link[1] < jobs[i][q].link[1]
                     \/ /\ jobs[i][p].link[1] = jobs[i][q].link[1]
                        /\ jobs[i][p].link[2] < jobs[i][q].link[2]

\* C1 witness: scrape returned the records of two pages, the page of the
\* greater offset having been parsed before the task of a smaller one ended
C1_Witness ==
    \E i \in Invocations :
        /\ pc[i] = "returned"
        /\ reordered[i]
        /\ \E p, q \in 1..Len(jobs[i]) :
              jobs[i][p].link[1] < jobs[i][q].link[1]
        /\ \E p, q \in 1..Len(jobs[i]) :
              /\ jobs[i][p].link[1] = jobs[i][q].link[1]
              /\ jobs[i][p].link[2] < jobs[i][q].link[2]


\* the listing tasks of invocation i, once created
Created(i) == {id \in DOMAIN task : id[1] = i}

\* the fetch for start o of invocation i returned a page without jobs
ReturnedEmpty(i, o) ==
    /\ <<i, o>> \in DOMAIN task
    /\ task[<<i, o>>].st = "ok"
    /\ task[<<i, o>>].result = <<>>

\* C2: once the fetch for an offset o has returned no records, every task of
\* the invocation for a greater offset is done (cancelled in that very step
\* when it was still running or not started), and no such task issues a
\* request afterwards; a cancelled task, wherever it was waiting, issues no
\* further request.
C2_NoRequestBeyondEmpty ==
    /\ [](\A i \in Invocations : \A id \in Created(i) :
            (\E o \in SeqToSet(Starts(limit)) :
                o < id[2] /\ ReturnedEmpty(i, o)) => task[id].st \in Done)
    /\ [][\A id \in DOMAIN task :
            \/ task[id].st = "cancelled"
            \/ \E o \in SeqToSet(Starts(limit)) :
                  o < id[2] /\ ReturnedEmpty(id[1], o)
            => /\ task'[id].requests = task[id].requests
               /\ task'[id].st = task[id].st]_vars

\* C2 witness: the page at offset 0 came back without jobs while one task
\* of a greater offset was sleeping its retry delay and another was waiting
\* for the limiter after a failed attempt; both are cancelled
C2_Witness ==
    \E i \in Invocations :
        /\ ReturnedEmpty(i, 0)
        /\ \E a, b \in Created(i) :
              /\ task[a].st = "cancelled" /\ task[a].was = "sleep"
              /\ task[b].st = "cancelled" /\ task[b].was = "acquire"
              /\ task[b].requests >= 1

\* scrape raised out of its loop over the listing results
ListingRaised(i) == pc[i] = "raised" /\ dtask[i] = <<>>

\* gather has handed the listing results to scrape
Gathered(i) == pc[i] \in {"details", "returned", "raised"}

JobLinks(i) == {jobs[i][p].link : p \in 1..Len(jobs[i])}

\* C3 (as claimed): when the task of one offset ends with TooManyRetries and
\* no task raises anything else, scrape does not raise: it goes on with the
\* records of the other offsets.
C3_ExhaustionAbsorbed ==
    \A i \in Invocations :
        /\ Gathered(i)
        /\ \E id \in Created(i) : task[id].st = "exhausted"
        /\ \A id \in Created(i) : task[id].st # "fatal"
        => /\ ~ListingRaised(i)
           /\ JobLinks(i) = UNION {Cards(o) : o \in Contributing(i)}

\* C4 (as claimed): when a detail fetch ends with TooManyRetries and no
\* detail fetch raises anything else, scrape does not raise.
C4_DetailExhaustionAbsorbed ==
    \A i \in Invocations :
        /\ \E k \in DOMAIN dtask[i] : dtask[i][k].st = "exhausted"
        /\ \A k \in DOMAIN dtask[i] : dtask[i][k].st # "fatal"
        => pc[i] # "raised"

\* the exception a unit of work met is none of those its except clause of
\* the retryable failures names
Unclassified(t) == t.last = "error"

\* C5: when a listing or a detail task met an exception that is not
\* classified as retryable, the task ends with it and scrape never returns
\* a list: it waits for the other listing tasks and raises.  It raises that
\* very class of exception unless the task of a smaller start (or another
\* detail task) ended with TooManyRetries, which is then what scrape raises.
C5_UnclassifiedPropagates ==
    \A i \in Invocations :
        /\ \A id \in Created(i) :
              Unclassified(task[id]) =>
                 /\ task[id].st = "fatal"
                 /\ pc[i] \in {"gather", "raised"}
                 /\ jobs[i] = <<>>
                 /\ /\ pc[i] = "raised"
                    /\ \A o \in Created(i) :
                          o[2] < id[2] => task[o].st # "exhausted"
                    => exc[i] = "Unclassified"
        /\ \A k \in DOMAIN dtask[i] :
              Unclassified(dtask[i][k]) =>
                 /\ dtask[i][k].st = "fatal"
                 /\ pc[i] = "raised"
                 /\ \/ exc[i] = "Unclassified"
                    \/ \E j \in DOMAIN dtask[i] : dtask[i][j].st = "exhausted"

\* C5 witness: scrape raised the unclassified exception of the task of a
\* start above 0 although another task had returned a page with jobs
C5_Witness ==
    \E i \in Invocations :
        /\ pc[i] = "raised"
        /\ exc[i] = "Unclassified"
        /\ \E id \in Created(i) : id[2] > 0 /\ Unclassified(task[id])
        /\ \E id \in Created(i) : task[id].st = "ok" /\ task[id].result # <<>>

\* C6 (as claimed): a response with a 4xx status other than 429 is fatal: no
\* listing or detail task sleeps a retry delay after one.
C6_ClientErrorIsFatal ==
    /\ \A id \in DOMAIN task :
          task[id].st = "sleep" => task[id].last # "s4xx"
    /\ \A i \in Invocations : \A k \in DOMAIN dtask[i] :
          dtask[i][k].st = "sleep" => dtask[i][k].last # "s4xx"


\* C7: a cancelled task contributes no record and is no error: when every
\* listing task ended returned or cancelled, scrape does not raise, and no
\* record of its list comes from a cancelled task.  With limit 100, 25
\* records at offsets 0 and 25, none at offset 50 and the task of offset 75
\* cancelled, scrape returns exactly 50 records.
C7_CancelledContributesNothing ==
    \A i \in Invocations :
        /\ Aggregated(i) =>
              \A p \in 1..Len(jobs[i]) :
                 task[<<i, jobs[i][p].link[1]>>].st = "ok"
        /\ /\ Gathered(i)
           /\ \A id \in Created(i) : task[id].st \in {"ok", "cancelled"}
           => Aggregated(i) /\ exc[i] = None
        /\ /\ Gathered(i)
           /\ limit = 100
           /\ upstream[0] = 25 /\ upstream[25] = 25 /\ upstream[50] = 0
           /\ \A o \in {0, 25, 50} : task[<<i, o>>].st = "ok"
           /\ task[<<i, 75>>].st = "cancelled"
           => /\ pc[i] = "returned"
              /\ exc[i] = None
              /\ Len(jobs[i]) = 50

\* C7 witness: the scenario, the cancelled task's page holding 25 records
C7_Witness ==
    \E i \in Invocations :
        /\ pc[i] = "returned"
        /\ limit = 100
        /\ upstream[75] = 25
        /\ \A o \in {0, 25, 50} : task[<<i, o>>].st = "ok"
        /\ task[<<i, 75>>].st = "cancelled"
        /\ Len(jobs[i]) = 50

\* the offsets below min(L, hardCap) that are multiples of the page size
ExpectedOffsets(l) ==
    {o \in 0..(Min(l, 1000) - 1) : o % 25 = 0}

\* C8: scrape creates exactly one task per multiple of the page size below
\* min(limit, hardCap), and none else: none for a limit <= 0, those of
\* 0, 25, 50 and 75 for limit 100, none at or above 1000 for any limit.
C8_OffsetsScheduled ==
    \A i \in Invocations :
        /\ pc[i] = "idle" => Created(i) = {}
        /\ pc[i] # "idle" =>
              /\ {id[2] : id \in Created(i)} = ExpectedOffsets(limit)
              /\ \A id \in Created(i) :
                    Cardinality({n \in 1..Len(registry) : registry[n] = id}) = 1
              /\ \A n \in 1..Len(registry) : registry[n] \in DOMAIN task
              /\ limit <= 0 => Created(i) = {}
              /\ limit = 100 => {id[2] : id \in Created(i)} = {0, 25, 50, 75}
              /\ \A id \in Created(i) :
                    /\ id[2] >= 0
                    /\ id[2] < limit
                    /\ id[2] < 1000
                    /\ id[2] % 25 = 0

\* C8 witness: a limit above the hard cap, the tasks created up to the last
\* start below the cap
C8_Witness ==
    /\ limit > 1000
    /\ pc[1] # "idle"
    /\ <<1, 975>> \in DOMAIN task

\* C9: no unit of work issues more than MAX_RETRIES requests; one that ends
\* with TooManyRetries has issued exactly MAX_RETRIES; and a unit that is
\* done, successfully or not, issues no request any more.
C9_BoundedAttempts ==
    /\ [](/\ \A id \in DOMAIN task :
               /\ task[id].requests <= 5
               /\ task[id].st = "exhausted" => task[id].requests = 5
          /\ \A i \in Invocations : \A k \in DOMAIN dtask[i] :
               /\ dtask[i][k].requests <= 5
               /\ dtask[i][k].st = "exhausted" => dtask[i][k].requests = 5)
    /\ [][/\ \A id \in DOMAIN task :
               task[id].st \in Done => task'[id] = task[id]
          /\ \A i \in Invocations : \A k \in DOMAIN dtask[i] :
               dtask[i][k].st \in Done => dtask'[i][k] = dtask[i][k]]_vars

\* C9 witness: one listing task gave up after its fifth request, another
\* returned after its first
C9_Witness ==
    /\ \E id \in DOMAIN task :
          task[id].st = "exhausted" /\ task[id].requests = 5
    /\ \E id \in DOMAIN task :
          task[id].st = "ok" /\ task[id].requests = 1

\* what a crawl of one page after the other, stopping at the first page
\* without jobs, collects
FirstEmpty ==
    LET E == {o \in DOMAIN upstream : upstream[o] = 0} IN
    IF E = {} THEN limit ELSE CHOOSE o \in E : \A e \in E : o <= e

SequentialLinks == UNION {Cards(o) : o \in {x \in DOMAIN upstream : x < FirstEmpty}}

\* C10 (as claimed): without failures the records scrape returns are a
\* function of the upstream alone.  When the tasks complete in the order of
\* their starts that function is the sequential crawl, so every run has to
\* return the sequential crawl's records.
C10_Deterministic ==
    \A i \in Invocations :
        pc[i] = "returned" /\ faults = 0 => JobLinks(i) = SequentialLinks

\* the country of the card's location text, its last part, is no alias
UnknownCountry(raw_job) ==
    raw_job.location[Len(raw_job.location)] \notin Aliases(Country)

\* the page has an "Employment type" item whose value is no alias
UnknownEmploymentType(page) ==
    \E k \in DOMAIN page.criteria :
        /\ page.criteria[k][1] = "Employment type"
        /\ page.criteria[k][2] \notin Aliases(EmploymentType)

\* C11 (as claimed): a card whose country string is unknown, and a detail
\* page whose employment-type string is unknown, make the parser raise, so
\* that the response is an error that get_jobs or get_job_details raises out
\* of scrape; no default member stands in for the unknown string.
C11_UnknownAliasSurfaces ==
    ret # <<>> =>
        /\ call.fn = "parse_job" /\ UnknownCountry(call.raw_job)
              => OutcomeOf(ret[1]) = "error"
        /\ /\ call.fn = "parse_job_details"
           /\ call.page.description
           /\ UnknownEmploymentType(call.page)
           => ret[1].raised = "ValueError" /\ OutcomeOf(ret[1]) = "error"

\* scrape handed control back to its caller, by return or by exception
Ended(i) == pc[i] \in {"returned", "raised"}

\* C12 (as claimed): once scrape has ended, by return or by exception, every
\* detail task of the invocation is done: none waits for the limiter, awaits
\* a response or sleeps a retry delay, so none writes a record's details
\* afterwards.
C12_DetailsAwaited ==
    \A i \in Invocations :
        Ended(i) => \A k \in DOMAIN dtask[i] : dtask[i][k].st \in Done

\* the enumeration a from_alias call looks the alias up in
EnumOf(fn) == IF fn = "EmploymentType.from_alias" THEN EmploymentType ELSE Country

\* the number of times a string is listed in a tuple of aliases
Listed(alias, value) == Cardinality({k \in DOMAIN value : value[k] = alias})

\* C13: from_alias returns, for every string listed in a member's tuple of
\* aliases, exactly that member, also when the string is listed twice, and
\* raises ValueError for every string that is in no member's tuple; it
\* never returns a default.
C13_AliasLookupStrict ==
    ret # <<>> /\ call.fn \in {"EmploymentType.from_alias", "Country.from_alias"}
    => LET enum == EnumOf(call.fn) IN
       /\ \A m \in DOMAIN enum :
             call.alias \in SeqToSet(enum[m].value) =>
                /\ ret[1].raised = None
                /\ ret[1].value = enum[m].name
       /\ call.alias \notin Aliases(enum) =>
             /\ ret[1].raised = "ValueError"
             /\ ret[1].value = None

\* C13 witness: an alias that its member lists twice was looked up
C13_Witness ==
    /\ ret # <<>>
    /\ call.fn = "EmploymentType.from_alias"
    /\ \E m \in DOMAIN EmploymentType :
          /\ Listed(call.alias, EmploymentType[m].value) = 2
          /\ ret[1].value = EmploymentType[m].name

\* C14 (as claimed): two jobs with the same link are equal and hash equally,
\* whatever their title, company, location and details, and two jobs with
\* different links are not equal.
C14_EqualByLink ==
    ret # <<>> /\ call.fn = "Job.__eq__" =>
        /\ call.a.link = call.b.link =>
              ret[1].value.eq /\ ret[1].value.hash_eq
        /\ call.a.link # call.b.link => ~ret[1].value.eq

\* C15: within one invocation a task is cancelled only when the fetch for a
\* smaller offset returned no records: no task whose offset is at or below
\* the boundary (min_starts, the spec's minEmpty) is cancelled, and once
\* scrape has its list the records of every task that returned are in it.
C15_CancelledOnlyAboveEmpty ==
    \A i \in Invocations : \A id \in Created(i) :
        /\ task[id].st = "cancelled" =>
              \E o \in SeqToSet(Starts(limit)) :
                  o < id[2] /\ ReturnedEmpty(i, o)
        /\ id[2] <= min_starts => task[id].st # "cancelled"
        /\ Aggregated(i) /\ task[id].st = "ok" =>
              Cards(id[2]) \subseteq JobLinks(i)

\* C15 witness: the page at offset 25 came back without jobs and the task of
\* offset 50 was cancelled; the task of offset 0 returned its records after
\* a retry and scrape returned them
C15_Witness ==
    \E i \in Invocations :
        /\ pc[i] = "returned"
        /\ min_starts = RESULTS_PER_PAGE
        /\ ReturnedEmpty(i, RESULTS_PER_PAGE)
        /\ <<i, 2 * RESULTS_PER_PAGE>> \in DOMAIN task
        /\ task[<<i, 2 * RESULTS_PER_PAGE>>].st = "cancelled"
        /\ task[<<i, 0>>].st = "ok"
        /\ task[<<i, 0>>].requests > 1
        /\ jobs[i] # <<>>

\* the offsets of invocation i whose fetch has returned no records so far
EmptySoFar(i) == {o \in SeqToSet(Starts(limit)) : ReturnedEmpty(i, o)}

\* the lowest of them, or min(limit, hardCap) when there is none
LowestEmpty(i) ==
    IF EmptySoFar(i) = {} THEN Min(limit, START_LIMIT)
    ELSE CHOOSE o \in EmptySoFar(i) : \A e \in EmptySoFar(i) : o <= e

\* the response of the task id is a page without jobs, handled in this step
ReturnsEmpty(id) ==
    /\ task[id].st = "request"
    /\ task'[id].st = "ok"
    /\ task'[id].result = <<>>

\* a page without jobs at an offset at or above the boundary changes
\* neither the boundary nor the state of any other task
BoundaryGuard ==
    \A id \in DOMAIN task :
        ReturnsEmpty(id) /\ id[2] >= min_starts =>
            /\ min_starts' = min_starts
            /\ \A other \in DOMAIN task \ {id} : task'[other] = task[other]

\* C16: during one invocation the boundary (min_starts, the spec's minEmpty)
\* starts at min(limit, hardCap), never increases, and in every state is the
\* lowest offset whose fetch has returned no records so far, or the initial
\* value when there is none; a page without jobs at an offset at or above
\* the boundary changes neither the boundary nor any other task's state.
C16_BoundaryIsLowestEmpty ==
    /\ [](\A i \in Invocations :
             pc[i] # "idle" => min_starts = LowestEmpty(i))
    /\ [][/\ \A i \in Invocations :
                pc[i] = "idle" /\ pc'[i] # "idle" =>
                    min_starts' = Min(limit, START_LIMIT)
          /\ (\E i \in Invocations : pc[i] # "idle") =>
                min_starts' <= min_starts
          /\ BoundaryGuard]_vars

\* C16 witness: the page at offset 25 came back without jobs first, then the
\* page at offset 0: the boundary went from the limit to 25 and on to 0
C16_Witness ==
    \E i \in Invocations :
        /\ ReturnedEmpty(i, 0)
        /\ ReturnedEmpty(i, RESULTS_PER_PAGE)
        /\ min_starts = 0
        /\ min_starts < Min(limit, START_LIMIT)

\* the units of work: the listing tasks and the detail tasks, as records
Units ==
    {task[id] : id \in DOMAIN task}
    \cup UNION {{dtask[i][k] : k \in DOMAIN dtask[i]} : i \in Invocations}

\* in this step the unit goes from u to v and issues a request
Issues(u, v) == v.requests > u.requests

\* the step takes one slot of the limiter's bucket, which had room
SlotTaken(u, v) ==
    /\ v.tokens = u.tokens + 1
    /\ v.requests = u.requests + 1
    /\ level < LIMITER_MAX_RATE
    /\ level' = level + 1

\* C17: every request, of a listing or a detail task, first attempt or
\* retry, is issued with a slot of the one limiter that the issuing task
\* acquired for it: no unit has issued more requests than it acquired
\* slots, the bucket never holds more than its rate, and each step that
\* issues a request takes one new slot from the bucket.
C17_RequestsNeedTokens ==
    /\ [](/\ \A u \in Units : u.requests <= u.tokens
          /\ level \in 0..LIMITER_MAX_RATE)
    /\ [][/\ \A id \in DOMAIN task :
                Issues(task[id], task'[id]) => SlotTaken(task[id], task'[id])
          /\ \A i \in Invocations : \A k \in DOMAIN dtask[i] :
                Issues(dtask[i][k], dtask'[i][k]) =>
                    SlotTaken(dtask[i][k], dtask'[i][k])]_vars

\* C17 witness: a listing task and a detail task have each retried, with a
\* slot for every request
C17_Witness ==
    /\ \E id \in DOMAIN task :
          task[id].requests >= 2 /\ task[id].tokens = task[id].requests
    /\ \E i \in Invocations : \E k \in DOMAIN dtask[i] :
          dtask[i][k].requests >= 2 /\ dtask[i][k].tokens = dtask[i][k].requests

\* C18 (as claimed): a unit that sleeps after a 429, a 5xx or a timeout
\* sleeps the seconds of the response's Retry-After header when the response
\* carried one, and RETRY_DELAY times the number of the failed round
\* otherwise.
C18_BackoffHonoursRetryAfter ==
    \A u \in Units :
        u.st = "sleep" /\ u.last \in {"s429", "s429ra", "s5xx", "timeout"} =>
            u.delay = IF u.last = "s429ra" THEN RetryAfterSeconds
                      ELSE RETRY_DELAY * u.retry

\* the upstream has no gap: every page after a page without jobs is without
\* jobs too
GapFree ==
    \A o, p \in DOMAIN upstream :
        o < p /\ upstream[o] = 0 => upstream[p] = 0

\* the cards a crawl of one page after the other collects, in its order,
\* when it stops at the first page without jobs
RECURSIVE Crawl(_)
Crawl(starts) ==
    IF starts = <<>> THEN <<>>
    ELSE IF upstream[Head(starts)] = 0 THEN <<>>
    ELSE Markup(Head(starts)) \o Crawl(Tail(starts))

\* no listing task and no detail task of invocation i gave up or raised
NoTaskFailed(i) ==
    /\ \A id \in Created(i) : task[id].st \notin {"fatal", "exhausted"}
    /\ \A k \in DOMAIN dtask[i] : dtask[i][k].st \notin {"fatal", "exhausted"}

\* C19: when the upstream is gap-free and no task exhausts its retries or
\* fails fatally, scrape gets, under every interleaving of responses,
\* retries and cancellations, exactly the list of the sequential crawl that
\* stops at the first page without jobs: the records of every offset below
\* min(E, limit), in order, and no other.
C19_EqualsSequentialCrawl ==
    \A i \in Invocations :
        GapFree =>
            /\ Gathered(i) /\ NoTaskFailed(i) => Aggregated(i)
            /\ Aggregated(i) =>
                  [p \in 1..Len(jobs[i]) |-> jobs[i][p].link]
                      = Crawl(Range(0, Min(limit, START_LIMIT), RESULTS_PER_PAGE))

\* C19 witness: pages with jobs, then pages without; the first page without
\* jobs was parsed before the task of a smaller offset had ended, the task
\* of the last offset was cancelled, and scrape returned the records of the
\* pages below
C19_Witness ==
    \E i \in Invocations :
        /\ GapFree
        /\ pc[i] = "returned"
        /\ reordered[i]
        /\ upstream[0] > 0
        /\ \E id \in Created(i) : task[id].st = "cancelled"
        /\ \E id \in Created(i) : task[id].st = "ok" /\ task[id].retry > 1
        /\ Len(jobs[i]) = upstream[0]

\* invocation i is under way: called and not ended
Running(i) == pc[i] \in {"gather", "details"}

\* C20 (as claimed): invocations with equal inputs on one instance do not
\* interfere: a task is cancelled only when a page of its own invocation at
\* a smaller offset came back without jobs, and the start of an invocation
\* leaves the boundary alone while another invocation is under way.
C20_NoInterference ==
    /\ [](\A id \in DOMAIN task :
             task[id].st = "cancelled" =>
                \E o \in SeqToSet(Starts(limit)) :
                    o < id[2] /\ ReturnedEmpty(id[1], o))
    /\ [][\A i \in Invocations :
             /\ pc[i] = "idle" /\ pc'[i] # "idle"
             /\ \E j \in Invocations \ {i} : Running(j)
             => min_starts' = min_starts]_vars

\* C21: under the fairness of SpecLive (the limiter grants every pending
\* acquire, every issued request is answered) every invocation that was
\* called ends, by return or by exception; every listing task and every
\* detail task ends as returned, failed or cancelled, none having issued
\* more than MAX_RETRIES requests; so no task and no invocation waits for
\* ever on the limiter, on the lock or on a cancelled sibling.
C21_Terminates ==
    /\ \A i \in Invocations : (pc[i] # "idle") ~> Ended(i)
    /\ \A id \in LiveTaskIds :
          (id \in DOMAIN task)
              ~> (/\ id \in DOMAIN task
                  /\ task[id].st \in {"ok", "fatal", "exhausted", "cancelled"})
    /\ \A d \in LiveDetailIds :
          (d[2] \in DOMAIN dtask[d[1]])
              ~> (/\ d[2] \in DOMAIN dtask[d[1]]
                  /\ dtask[d[1]][d[2]].st \in {"ok", "fatal", "exhausted"})
    /\ [](\A u \in Units : u.requests <= MAX_RETRIES)

\* C21 witness: scrape returned although the task of offset 25 had been
\* cancelled while it slept a retry delay, and the task of offset 0 had
\* itself retried
C21_Witness ==
    \E i \in Invocations :
        /\ pc[i] = "returned"
        /\ \E id \in Created(i) :
              task[id].st = "cancelled" /\ task[id].was = "sleep"
        /\ \E id \in Created(i) : task[id].st = "ok" /\ task[id].requests > 1

=============================================================================
